---- MODULE Spec2Model ----
(***************************************************************************)
(* Model of TerminalStickyScrollContribution                               *)
(* (terminal.stickyScroll.contribution.ts): the per-terminal controller    *)
(* that mirrors the command line pinned to the top of the viewport into a  *)
(* one-row overlay terminal.                                               *)
(*                                                                         *)
(* The UI event loop is modelled by `turn`: "events" while a batch of       *)
(* terminal events is being dispatched synchronously, "none" between       *)
(* turns.  Promise continuations, clicks and changes made by the host each   *)
(* run as a turn of their own, in one step.                                *)
(*                                                                         *)
(* Strings are sequences of characters; "CR" and "LF" stand for '\r' and   *)
(* '\n'.  A marker is <<line>>; the undefined marker is <<>>.              *)
(***************************************************************************)
EXTENDS Integers, Sequences, FiniteSets, TLC

VARIABLES
    xterm,                \* this._xterm is set (xtermReady has run)
    rawElement,           \* xterm.raw.element: the primary's rendered surface exists
    isGpuAccelerated,     \* xterm.isGpuAccelerated
    cols,                 \* xterm.raw.cols
    bufferType,           \* xterm.raw.buffer.active.type
    capability,           \* command detection capability is registered
    promises,             \* state of the three asynchronous constructions
    stickyScrollOverlay,  \* this._stickyScrollOverlay
    serializeAddon,       \* this._serializeAddon is set
    element,              \* this._element and what was done to it
    textContent,          \* element.textContent, as the overlay's renderer left it
    currentStickyMarker,  \* this._currentStickyMarker
    turn,                 \* what the event loop is running
    batchEvents,          \* scroll/line-feed events dispatched in the running turn
    disposed,             \* dispose() has been called on the controller's store
    gpuSeen,              \* xterm.isGpuAccelerated as it was when xtermReady ran
                          \* and as line 77 read it
    batchRuns,            \* executions of _refresh's body in the running turn
    op,                   \* the controller's operation that produced this state,
                          \* "host" when the step was the host's or the event loop's
    last                  \* what that operation read and did

vars == <<xterm, rawElement, isGpuAccelerated, cols, bufferType, capability,
          promises, stickyScrollOverlay, serializeAddon, element, textContent,
          currentStickyMarker, disposed, gpuSeen, turn, batchEvents,
          batchRuns, op, last>>

\* what the host and the primary terminal own
hostVars == <<xterm, rawElement, isGpuAccelerated, cols, bufferType, capability>>

(***************************************************************************)
(* Bounds and program constants                                            *)
(***************************************************************************)
MaxLine == 1
MaxEventsPerTurn == 2

InvalidLine == -1
OverlayRows == 1

Lines == InvalidLine..MaxLine
\* the widths the primary terminal takes
Cols == {80, 120}
Undefined == <<>>
OptMarkers == {Undefined} \cup {<<l>> : l \in Lines}

\* the values of xterm.raw.buffer.active.baseY, the size of the scrollback
BaseYs == {0, 1}

CRLF == <<"CR", "LF">>
\* the rows of the primary buffer, as serialized
LineTexts == {<<>>, <<"a">>}
\* what SerializeAddon.serialize returns: the rows joined by "\r\n"; one row,
\* or a first row followed by a non-empty one
SerializedTexts == LineTexts \cup {a \o CRLF \o <<"a">> : a \in LineTexts}

NoCommand == [present |-> FALSE, hasStart |-> FALSE, start |-> Undefined,
              hasMarker |-> FALSE, marker |-> Undefined]
\* what getCommandForLine returns: nothing, or a record with either, both or
\* none of the fields commandStartMarker and marker (each possibly undefined)
Commands ==
    {NoCommand} \cup
    {c \in [present : {TRUE}, hasStart : BOOLEAN, start : OptMarkers,
            hasMarker : BOOLEAN, marker : OptMarkers] :
        /\ (~c.hasStart => c.start = Undefined)
        /\ (~c.hasMarker => c.marker = Undefined)
        /\ (c.hasStart /\ c.hasMarker => c.marker = <<MaxLine>>)}

NoElement == [defined |-> FALSE, created |-> 0, appended |-> 0, listeners |-> 0,
              opened |-> 0, hover |-> 0, visible |-> TRUE]
NoOverlay == [defined |-> FALSE, cols |-> 0, rows |-> 0, text |-> <<>>, canvas |-> FALSE]
NoLast == [outcome |-> "none", threw |-> FALSE, cmd |-> NoCommand, marker |-> Undefined,
           baseY |-> 0, scrollback |-> 0, serialized |-> FALSE, s |-> <<>>, content |-> <<>>,
           writes |-> <<>>, scroll |-> <<>>]

(***************************************************************************)
(* Pure helpers                                                            *)
(***************************************************************************)
\* String.prototype.indexOf: 0-based index of the first c, or -1
IndexOf(s, c) ==
    IF \E i \in 1..Len(s) : s[i] = c
    THEN (CHOOSE i \in 1..Len(s) : s[i] = c /\ \A j \in 1..(i - 1) : s[j] # c) - 1
    ELSE -1

Clamp(n, lo, hi) == IF n < lo THEN lo ELSE IF n > hi THEN hi ELSE n

\* String.prototype.substring(start, end): arguments clamped to 0..length, swapped
\* when start > end
Substring(s, start, end) ==
    LET a == Clamp(start, 0, Len(s))
        b == Clamp(end, 0, Len(s))
        lo == IF a < b THEN a ELSE b
        hi == IF a < b THEN b ELSE a
    IN  SubSeq(s, lo + 1, hi)

(***************************************************************************)
(* _refresh, lines 99-103: the marker of a command record                  *)
(***************************************************************************)
\* a resolution that knows only the commandStartMarker shape
ResolveMarkerStartOnly(command) ==
    IF command.present /\ command.hasStart THEN command.start ELSE Undefined

\* lines 99-103 as written: commandStartMarker if the record has the field,
\* else marker if it has that one, else undefined
ResolveMarker(command) ==
    IF command.present /\ command.hasStart
    THEN command.start
    ELSE IF command.present /\ command.hasMarker
         THEN command.marker
         ELSE Undefined

\* a test that forgets the sentinel line
MarkerUsableIgnoringSentinel(marker) == marker # Undefined

\* line 104, negated: the marker exists and its line is not the sentinel
MarkerUsable(marker) == marker # Undefined /\ marker[1] # InvalidLine

\* line 122: the scrollback asked of the serializer
Scrollback(marker, baseY) == baseY - marker[1]

\* line 125: s.substring(0, s.indexOf('\r'))
ExtractContent(s) == Substring(s, 0, IndexOf(s, "CR"))

(***************************************************************************)
(* _ensureElement, lines 136-158.  The result is the element's new state   *)
(* and whether the call threw: line 141 dereferences xterm.raw.element and *)
(* line 152 dereferences this._stickyScrollOverlay, both unguarded, after  *)
(* this._element has been assigned on line 138.                            *)
(***************************************************************************)
EnsureElement(e) ==
    IF e.defined
    THEN [el |-> e, threw |-> FALSE]
    ELSE IF ~rawElement
    THEN [el |-> [e EXCEPT !.defined = TRUE, !.created = @ + 1], threw |-> TRUE]
    ELSE IF ~stickyScrollOverlay.defined
    THEN [el |-> [e EXCEPT !.defined = TRUE, !.created = @ + 1, !.appended = @ + 1,
                           !.listeners = @ + 1],
          threw |-> TRUE]
    ELSE [el |-> [e EXCEPT !.defined = TRUE, !.created = @ + 1, !.appended = @ + 1,
                           !.listeners = @ + 1, !.opened = @ + 1, !.hover = @ + 1],
          threw |-> FALSE]

\* _syncOptions, lines 160-183: target.resize(copyFrom.cols, 1)
SyncOptions(target) == [target EXCEPT !.cols = cols, !.rows = OverlayRows]

\* line 118: '\x1b[H\x1b[K', cursor home and erase to the end of the line
Reset == <<"ESC[H", "ESC[K">>

\* writes that reset the overlay terminal only when there is content to write
OverlayWritesIfContent(s) ==
    LET content == Substring(s, 0, IndexOf(s, "CR"))
    IN  IF serializeAddon /\ s # <<>> /\ content # <<>>
        THEN <<Reset, content>>
        ELSE <<>>

\* lines 117-131: what _refresh writes to the overlay terminal, in order.
\* `s` is what serialize returns; without the addon `?.` yields undefined.
OverlayWrites(s) ==
    LET content == ExtractContent(s)
    IN  <<Reset>> \o
        (IF serializeAddon /\ s # <<>> /\ content # <<>> THEN <<content>> ELSE <<>>)

\* the overlay's row after the writes: "\x1b[H\x1b[K" homes the cursor and
\* clears the row, text is then written from column 0
TextAfter(text, writes) ==
    IF writes = <<>> THEN text
    ELSE IF Len(writes) = 1 THEN <<>> ELSE writes[2]

\* a body that leaves the recorded marker alone until it has a new one
KeptMarker == currentStickyMarker

\* line 91: this._currentStickyMarker = undefined, before anything is resolved
ClearedMarker == Undefined

\* a body that takes the rendered surface for granted
SurfaceAssumed == TRUE

\* line 88, negated: this._xterm?.raw?.element is there
SurfaceReady == xterm /\ rawElement

(***************************************************************************)
(* The body of _refresh, lines 87-134.  `cmd` is what getCommandForLine    *)
(* returns for the top row of the viewport, `baseY` the primary buffer's   *)
(* baseY and `s` what serialize returns, `runs` the executions counted so  *)
(* far in this batch.                                                      *)
(***************************************************************************)
RefreshBody(cmd, baseY, s, runs) ==
    LET marker == ResolveMarker(cmd)
        ee == EnsureElement(element)
        writes == OverlayWrites(s)
        asked == serializeAddon
    IN
    /\ batchRuns' = runs + 1
    /\ op' = "refresh"
    /\ IF ~SurfaceReady
       THEN /\ last' = [NoLast EXCEPT !.outcome = "noSurface"]
            /\ UNCHANGED <<currentStickyMarker, element, stickyScrollOverlay>>
       ELSE IF ~capability
       THEN /\ currentStickyMarker' = ClearedMarker
            /\ last' = [NoLast EXCEPT !.outcome = "noCapability"]
            /\ UNCHANGED <<element, stickyScrollOverlay>>
       ELSE IF ~MarkerUsable(marker)
       THEN /\ currentStickyMarker' = ClearedMarker
            /\ last' = [NoLast EXCEPT !.outcome = "noMarker", !.cmd = cmd,
                                      !.marker = marker]
            /\ UNCHANGED <<element, stickyScrollOverlay>>
       ELSE IF ee.threw
       THEN /\ currentStickyMarker' = marker
            /\ element' = ee.el
            /\ last' = [NoLast EXCEPT !.outcome = "threw", !.threw = TRUE, !.cmd = cmd,
                                      !.marker = marker]
            /\ UNCHANGED stickyScrollOverlay
       ELSE /\ currentStickyMarker' = marker
            /\ element' = [ee.el EXCEPT !.visible = (textContent # <<>>)]
            /\ IF stickyScrollOverlay.defined
               THEN /\ stickyScrollOverlay' =
                         SyncOptions([stickyScrollOverlay EXCEPT
                                         !.text = TextAfter(@, writes)])
                    /\ last' = [NoLast EXCEPT
                                   !.outcome = "done", !.cmd = cmd, !.marker = marker,
                                   !.serialized = asked,
                                   !.baseY = IF asked THEN baseY ELSE 0,
                                   !.scrollback = IF asked THEN Scrollback(marker, baseY)
                                                  ELSE 0,
                                   !.s = IF asked THEN s ELSE <<>>,
                                   !.content = IF asked /\ s # <<>>
                                               THEN ExtractContent(s) ELSE <<>>,
                                   !.writes = writes]
               ELSE /\ last' = [NoLast EXCEPT !.outcome = "done", !.cmd = cmd,
                                              !.marker = marker]
                    /\ UNCHANGED stickyScrollOverlay

(***************************************************************************)
(* What a run of the body reads from outside: getCommandForLine is called  *)
(* only past the checks of lines 88 and 94, serialize only on line 121.    *)
(* Where the call is not made the input is fixed.                          *)
(***************************************************************************)
CommandsRead ==
    IF SurfaceReady /\ capability THEN Commands ELSE {NoCommand}

Serializes(cmd) ==
    /\ SurfaceReady /\ capability
    /\ MarkerUsable(ResolveMarker(cmd))
    /\ ~EnsureElement(element).threw
    /\ stickyScrollOverlay.defined
    /\ serializeAddon

BaseYsRead(cmd) == IF Serializes(cmd) THEN BaseYs ELSE {0}

SerializedRead(cmd) == IF Serializes(cmd) THEN SerializedTexts ELSE {<<>>}

(***************************************************************************)
(* @throttle(0), line 86.  The decorator runs a call at once when the last *)
(* run is at least `delay` ms old and defers it to a timer otherwise.      *)
(* With a delay of 0 the last run is never too recent: every call runs the *)
(* body synchronously, inside the listener that made it, and no timer is   *)
(* ever set.                                                               *)
(***************************************************************************)
Throttle(runs) ==
    \E cmd \in CommandsRead :
       \E baseY \in BaseYsRead(cmd), s \in SerializedRead(cmd) :
          RefreshBody(cmd, baseY, s, runs)

\* this._refresh() as the listeners of lines 62-63 call it
Refresh(runs) == Throttle(runs)

(***************************************************************************)
(* Initial state: the controller has been constructed (lines 43-51), the   *)
(* host has not yet called xtermReady.                                     *)
(***************************************************************************)
Init ==
    /\ xterm = FALSE
    /\ rawElement = FALSE
    /\ isGpuAccelerated \in BOOLEAN
    /\ cols \in Cols
    /\ bufferType = "normal"
    /\ capability = FALSE
    /\ promises = [ctor |-> "none", serialize |-> "none", canvas |-> "none"]
    /\ stickyScrollOverlay = NoOverlay
    /\ serializeAddon = FALSE
    /\ element = NoElement
    /\ textContent = <<>>
    /\ currentStickyMarker = Undefined
    /\ disposed = FALSE
    /\ gpuSeen = [attach |-> FALSE, ctor |-> FALSE]
    /\ turn = "none"
    /\ batchEvents = 0
    /\ batchRuns = 0
    /\ op = "init"
    /\ last = NoLast

controllerVars == <<promises, stickyScrollOverlay, serializeAddon, element,
                    currentStickyMarker, disposed, gpuSeen>>
batchVars == <<turn, batchEvents, batchRuns>>

(***************************************************************************)
(* xtermReady, lines 53-84: the synchronous part registers the listeners   *)
(* and starts the construction of the overlay terminal.                    *)
(***************************************************************************)
XtermReady ==
    /\ ~xterm
    /\ ~disposed
    /\ turn = "none"
    /\ xterm' = TRUE
    /\ promises' = [promises EXCEPT !.ctor = "pending"]
    /\ op' = "xtermReady"
    /\ last' = NoLast
    /\ gpuSeen' = [gpuSeen EXCEPT !.attach = isGpuAccelerated]
    /\ UNCHANGED <<rawElement, isGpuAccelerated, cols, bufferType, capability,
                   stickyScrollOverlay, serializeAddon, element, textContent,
                   currentStickyMarker, disposed, batchVars>>

\* a continuation that loads the canvas addon whatever the primary renders with
CanvasAlways == TRUE

\* line 77: if (xterm.isGpuAccelerated), evaluated when the continuation runs
CanvasWanted == isGpuAccelerated

\* lines 66-83: the continuation of getXtermConstructor
CtorResolved ==
    /\ promises.ctor = "pending"
    /\ turn = "none"
    /\ stickyScrollOverlay' = [NoOverlay EXCEPT !.defined = TRUE, !.rows = OverlayRows,
                                                !.cols = cols]
    /\ promises' = [ctor |-> "done", serialize |-> "pending",
                    canvas |-> IF CanvasWanted THEN "pending" ELSE "none"]
    /\ gpuSeen' = [gpuSeen EXCEPT !.ctor = isGpuAccelerated]
    /\ op' = "ctorResolved"
    /\ last' = NoLast
    /\ UNCHANGED <<hostVars, serializeAddon, element, textContent, currentStickyMarker,
                   disposed, batchVars>>

\* lines 72-75: the continuation of _getSerializeAddonConstructor
SerializeResolved ==
    /\ promises.serialize = "pending"
    /\ turn = "none"
    /\ serializeAddon' = TRUE
    /\ promises' = [promises EXCEPT !.serialize = "done"]
    /\ op' = "serializeResolved"
    /\ last' = NoLast
    /\ UNCHANGED <<hostVars, stickyScrollOverlay, element, textContent,
                   currentStickyMarker, disposed, gpuSeen, batchVars>>

\* lines 78-81: the continuation of _getCanvasAddonConstructor
CanvasResolved ==
    /\ promises.canvas = "pending"
    /\ turn = "none"
    /\ stickyScrollOverlay' = [stickyScrollOverlay EXCEPT !.canvas = TRUE]
    /\ promises' = [promises EXCEPT !.canvas = "done"]
    /\ op' = "canvasResolved"
    /\ last' = NoLast
    /\ UNCHANGED <<hostVars, serializeAddon, element, textContent, currentStickyMarker,
                   disposed, gpuSeen, batchVars>>

(***************************************************************************)
(* The listeners, which run inside the turn that dispatches the event.     *)
(* They are the disposables handed to this.add on lines 56, 62 and 63, so  *)
(* they are gone once the store is disposed.                               *)
(***************************************************************************)
\* lines 56-59: onBufferChange, fired when the active buffer becomes `type`
BufferChange(type) ==
    LET ee == EnsureElement(element)
    IN
    /\ xterm /\ ~disposed
    /\ turn \in {"none", "events"}
    /\ type # bufferType
    /\ bufferType' = type
    /\ turn' = "events"
    /\ element' = IF ee.threw THEN ee.el ELSE [ee.el EXCEPT !.visible = (type = "normal")]
    /\ op' = "bufferChange"
    /\ last' = [NoLast EXCEPT !.outcome = IF ee.threw THEN "threw" ELSE "done",
                              !.threw = ee.threw]
    /\ batchEvents' = IF turn = "none" THEN 0 ELSE batchEvents
    /\ batchRuns' = IF turn = "none" THEN 0 ELSE batchRuns
    /\ UNCHANGED <<xterm, rawElement, isGpuAccelerated, cols, capability,
                   promises, stickyScrollOverlay, serializeAddon, textContent,
                   currentStickyMarker, disposed, gpuSeen>>

\* a scroll or line-feed event opens a batch, or joins the batch of this turn
Dispatch ==
    /\ xterm /\ ~disposed
    /\ turn \in {"none", "events"}
    /\ (turn = "events" => batchEvents < MaxEventsPerTurn)
    /\ turn' = "events"
    /\ batchEvents' = IF turn = "none" THEN 1 ELSE batchEvents + 1
    /\ Refresh(IF turn = "none" THEN 0 ELSE batchRuns)

\* line 62: onScroll
OnScroll ==
    /\ Dispatch
    /\ UNCHANGED <<hostVars, promises, serializeAddon, textContent, disposed, gpuSeen>>

\* line 63: onLineFeed
OnLineFeed ==
    /\ Dispatch
    /\ UNCHANGED <<hostVars, promises, serializeAddon, textContent, disposed, gpuSeen>>

\* a listener that asks for the line at the top instead of the middle
ClickRequestsTop ==
    IF xterm /\ currentStickyMarker # Undefined
    THEN <<[line |-> currentStickyMarker[1], position |-> "Top"]>>
    ELSE <<>>

\* lines 144-148: what the click listener asks of the primary terminal
ClickRequests ==
    IF xterm /\ currentStickyMarker # Undefined
    THEN <<[line |-> currentStickyMarker[1], position |-> "Middle"]>>
    ELSE <<>>

RECURSIVE Times(_, _)
Times(seq, n) == IF n = 0 THEN <<>> ELSE seq \o Times(seq, n - 1)

\* a click on the hover overlay, once line 154 has put it in the element, runs
\* every listener registered on it
Click ==
    /\ element.listeners > 0
    /\ element.hover > 0
    /\ turn = "none"
    /\ op' = "click"
    /\ last' = [NoLast EXCEPT !.outcome = "done",
                              !.scroll = Times(ClickRequests, element.listeners)]
    /\ UNCHANGED <<hostVars, controllerVars, textContent, batchVars>>

\* the running turn ends and control returns to the event loop; the counts of
\* the turn start again
Yield ==
    /\ turn # "none"
    /\ turn' = "none"
    /\ batchEvents' = 0
    /\ batchRuns' = 0
    /\ op' = "host"
    /\ last' = NoLast
    /\ UNCHANGED <<hostVars, controllerVars, textContent>>

(***************************************************************************)
(* dispose(), inherited from DisposableStore (line 32): it disposes what   *)
(* was handed to this.add, which is the three terminal listeners (lines    *)
(* 56, 62, 63) and the click listener (line 144).  The element, the        *)
(* overlay terminal, the addons and the pending promises are not in the    *)
(* store.                                                                  *)
(***************************************************************************)
Dispose ==
    /\ ~disposed
    /\ turn = "none"
    /\ disposed' = TRUE
    /\ element' = [element EXCEPT !.listeners = 0]
    /\ op' = "dispose"
    /\ last' = NoLast
    /\ UNCHANGED <<hostVars, promises, stickyScrollOverlay, serializeAddon, textContent,
                   currentStickyMarker, gpuSeen, batchVars>>

(***************************************************************************)
(* The host and the terminal library, between turns.  The controller is    *)
(* disposed together with its terminal, which is then left alone.          *)
(***************************************************************************)
\* the primary terminal is attached to the DOM: raw.element exists (line 88)
OpenPrimary ==
    /\ ~rawElement /\ ~disposed
    /\ turn = "none"
    /\ rawElement' = TRUE
    /\ op' = "host"
    /\ last' = NoLast
    /\ UNCHANGED <<xterm, isGpuAccelerated, cols, bufferType, capability,
                   controllerVars, textContent, batchVars>>

\* shell integration registers command detection (line 93)
AddCapability ==
    /\ ~capability /\ ~disposed
    /\ turn = "none"
    /\ capability' = TRUE
    /\ op' = "host"
    /\ last' = NoLast
    /\ UNCHANGED <<xterm, rawElement, isGpuAccelerated, cols, bufferType,
                   controllerVars, textContent, batchVars>>

\* the capability goes away again, as when shell integration is lost (line 93)
RemoveCapability ==
    /\ capability /\ ~disposed
    /\ turn = "none"
    /\ capability' = FALSE
    /\ op' = "host"
    /\ last' = NoLast
    /\ UNCHANGED <<xterm, rawElement, isGpuAccelerated, cols, bufferType,
                   controllerVars, textContent, batchVars>>

\* the primary terminal switches between its GPU renderers and the DOM renderer
\* (xterm.isGpuAccelerated, line 77).  The controller reads the property for
\* the last time when the overlay terminal is constructed.
GpuChange ==
    /\ ~disposed
    /\ promises.ctor # "done"
    /\ turn = "none"
    /\ isGpuAccelerated' = ~isGpuAccelerated
    /\ op' = "host"
    /\ last' = NoLast
    /\ UNCHANGED <<xterm, rawElement, cols, bufferType, capability,
                   controllerVars, textContent, batchVars>>

\* the primary terminal is resized (cols is read on lines 69 and 162)
Resize(c) ==
    /\ c # cols /\ ~disposed
    /\ turn = "none"
    /\ cols' = c
    /\ op' = "host"
    /\ last' = NoLast
    /\ UNCHANGED <<xterm, rawElement, isGpuAccelerated, bufferType, capability,
                   controllerVars, textContent, batchVars>>

\* the overlay terminal, once opened on the element (line 152), renders its row
\* into it: as text nodes with the DOM renderer, as pixels with the canvas
\* renderer.  Either leaves element.textContent (read on line 110) as it is found.
Render ==
    /\ element.opened > 0 /\ ~disposed
    /\ turn = "none"
    /\ \E t \in {<<>>, stickyScrollOverlay.text} :
          /\ t # textContent
          /\ textContent' = t
    /\ op' = "host"
    /\ last' = NoLast
    /\ UNCHANGED <<hostVars, controllerVars, batchVars>>

Next ==
    \/ XtermReady
    \/ CtorResolved
    \/ SerializeResolved
    \/ CanvasResolved
    \/ \E type \in {"normal", "alternate"} : BufferChange(type)
    \/ OnScroll
    \/ OnLineFeed
    \/ Click
    \/ Yield
    \/ Dispose
    \/ OpenPrimary
    \/ AddCapability
    \/ RemoveCapability
    \/ GpuChange
    \/ \E c \in Cols : Resize(c)
    \/ Render

Spec == Init /\ [][Next]_vars

(***************************************************************************)
(* Properties                                                              *)
(***************************************************************************)
\* the last operation was a run of _refresh's body that serialized the buffer
SerializedByRefresh ==
    op = "refresh" /\ last.outcome = "done" /\ last.serialized

\* the first line of a serialized text: the text before its first line break,
\* all of it when it has none
FirstLine(s) ==
    IF \E i \in 1..Len(s) : s[i] = "CR"
    THEN SubSeq(s, 1, IndexOf(s, "CR"))
    ELSE s

\* C1: however many scroll and line-feed events one turn dispatches, the body
\* of _refresh runs at most once for them.
C1_AtMostOneRunPerBatch == batchRuns <= 1

\* C2: after a refresh the element is shown if the refresh resolved non-empty
\* content and hidden if the serialized text is the empty string.
C2_VisibilityReflectsContent ==
    SerializedByRefresh =>
        /\ (last.content # <<>> => element.visible)
        /\ (last.s = <<>> => ~element.visible)

\* C3: the overlay element, once built, is visible exactly when the active
\* buffer is the normal buffer and the resolved content is non-empty.
C3_VisibilityIsPureFunction ==
    element.opened > 0 =>
        (element.visible <=>
            (bufferType = "normal" /\ stickyScrollOverlay.text # <<>>))

\* C4: when the buffer-change handler finishes the element is hidden if the
\* reported buffer is not the normal one, and visible if it is.
C4_BufferChangeSetsVisibility ==
    op = "bufferChange" => (element.visible <=> (bufferType = "normal"))

\* C5: a refresh or buffer-change event that runs on an attached primary
\* terminal before the overlay terminal exists completes without error.
C5_ToleratesMissingOverlay ==
    (op \in {"refresh", "bufferChange"} /\ rawElement /\ ~stickyScrollOverlay.defined)
        => ~last.threw

\* C6: a refresh whose resolved marker has the sentinel line -1 leaves the
\* overlay terminal's content and the element's visibility as they were.
C6_SentinelLeavesOverlay ==
    [][(op' = "refresh" /\ last'.marker = <<InvalidLine>>)
         => /\ stickyScrollOverlay'.text = stickyScrollOverlay.text
            /\ element'.visible = element.visible]_vars

\* C6 witness: a refresh resolved the sentinel line while the overlay held text.
C6_Witness ==
    /\ op = "refresh" /\ last.marker = <<InvalidLine>>
    /\ element.opened > 0 /\ stickyScrollOverlay.text # <<>>

\* C7: a record with only commandStartMarker resolves to that marker, a record
\* with only marker resolves to that marker, and a record with neither (or no
\* record) makes refresh abort, the element and the overlay terminal untouched.
C7_MarkerResolution ==
    [][(op' = "refresh" /\ last'.outcome \in {"noMarker", "threw", "done"})
         => LET c == last'.cmd
            IN  /\ (c.present /\ c.hasStart /\ ~c.hasMarker /\ c.start # Undefined)
                      => /\ last'.marker = c.start
                         /\ (c.start[1] # InvalidLine => currentStickyMarker' = c.start)
                /\ (c.present /\ ~c.hasStart /\ c.hasMarker /\ c.marker # Undefined)
                      => /\ last'.marker = c.marker
                         /\ (c.marker[1] # InvalidLine => currentStickyMarker' = c.marker)
                /\ (~c.present \/ (~c.hasStart /\ ~c.hasMarker))
                      => /\ last'.outcome = "noMarker"
                         /\ element' = element
                         /\ stickyScrollOverlay' = stickyScrollOverlay]_vars

\* C7 witness: a refresh resolved a record that has only the marker field.
C7_Witness ==
    /\ op = "refresh" /\ last.outcome = "done"
    /\ last.cmd.hasMarker /\ ~last.cmd.hasStart
    /\ last.cmd.marker # Undefined
    /\ currentStickyMarker = last.cmd.marker

\* C8: a refresh that serializes asks for scrollback baseY - line, and the
\* overlay terminal then holds the first line of the serialized text.
C8_FirstLineWritten ==
    SerializedByRefresh =>
        /\ last.scrollback = last.baseY - last.marker[1]
        /\ stickyScrollOverlay.text = FirstLine(last.s)

\* C9: a click while a marker is recorded asks the primary terminal exactly
\* once to scroll to the marker's line, centred; a click without a marker asks
\* for nothing.
C9_ClickScrollsToMarker ==
    op = "click" =>
        last.scroll = IF currentStickyMarker # Undefined
                      THEN <<[line |-> currentStickyMarker[1], position |-> "Middle"]>>
                      ELSE <<>>

\* C9 witness: a click was handled while a marker was recorded.
C9_Witness == op = "click" /\ currentStickyMarker # Undefined /\ Len(last.scroll) = 1

\* C10: once _ensureElement has been called the element has been created,
\* appended, given its click listener and opened on the overlay terminal
\* exactly once; never is there more than one element.
C10_EnsureElementOnce ==
    /\ element.created <= 1
    /\ element.defined =>
          /\ element.created = 1
          /\ element.appended = 1
          /\ element.listeners = 1
          /\ element.opened = 1

\* C11: a refresh that finds no rendered surface, no command detection
\* capability or no command for the top row returns without error and leaves
\* the element (its visibility included) and the overlay terminal (its content
\* included) as they were.
C11_MissingDataIsNoOp ==
    [][(op' = "refresh" /\ (~rawElement \/ ~capability \/ ~last'.cmd.present))
         => /\ ~last'.threw
            /\ element' = element
            /\ stickyScrollOverlay' = stickyScrollOverlay]_vars

\* C11 witness: a refresh found no command for the top row while the element
\* was built and the overlay terminal held text.
C11_Witness ==
    /\ op = "refresh" /\ last.outcome = "noMarker" /\ ~last.cmd.present
    /\ element.opened > 0 /\ stickyScrollOverlay.text # <<>>

\* C12: once the controller is disposed everything it owns is released: no
\* overlay terminal is alive and no overlay element is left in the DOM,
\* whether the overlay was constructed before the disposal or was still under
\* construction then.
C12_ReleasedOnDispose ==
    disposed =>
        /\ ~stickyScrollOverlay.defined
        /\ element.appended = 0

\* C13: after a refresh that got past the rendered-surface check the recorded
\* marker is the one this refresh resolved, if it is valid, and is unset
\* otherwise; a marker recorded by an earlier refresh does not survive.
C13_MarkerReplaced ==
    (op = "refresh" /\ last.outcome # "noSurface") =>
        currentStickyMarker =
            IF last.marker # Undefined /\ last.marker[1] # InvalidLine
            THEN last.marker
            ELSE Undefined

\* C13 witness: the overlay terminal holds the text of an earlier refresh, and
\* a refresh that found the capability gone has left no marker recorded.
C13_Witness ==
    /\ op = "refresh" /\ last.outcome = "noCapability"
    /\ stickyScrollOverlay.text # <<>>
    /\ currentStickyMarker = Undefined

\* the step is a run of _refresh's body that reaches the overlay terminal
\* (line 117): it got a valid marker, _ensureElement returned, and the overlay
\* terminal exists
ReachesOverlay ==
    /\ op' = "refresh" /\ last'.outcome = "done"
    /\ stickyScrollOverlay.defined

\* C14, as claimed: a refresh resets the overlay terminal and then writes the
\* extracted content when that content is non-empty, and neither resets nor
\* writes when it is empty.
C14_ResetOnlyWithContent ==
    op = "refresh" =>
        last.writes = IF last.content # <<>> THEN <<Reset, last.content>> ELSE <<>>

\* C14, amended: a refresh that reaches the overlay terminal always resets it
\* first and then writes the extracted content if that is non-empty, so the
\* overlay's text is then exactly the content this refresh extracted (empty
\* when it extracted none); any other refresh neither resets nor writes.
C14_ResetThenContent ==
    [][op' = "refresh" =>
         IF ReachesOverlay
         THEN /\ last'.writes = IF last'.content # <<>>
                                THEN <<Reset, last'.content>>
                                ELSE <<Reset>>
              /\ stickyScrollOverlay'.text = last'.content
         ELSE /\ last'.writes = <<>>
              /\ stickyScrollOverlay'.text = stickyScrollOverlay.text]_vars

\* C14 witness: a refresh serialized, extracted nothing and wrote the reset
\* alone, while the element still shows the text rendered earlier.
C14_Witness ==
    /\ op = "refresh" /\ last.serialized /\ last.content = <<>>
    /\ last.writes = <<Reset>>
    /\ stickyScrollOverlay.text = <<>> /\ textContent # <<>>

\* C15: the overlay terminal has exactly one row in every state, and after
\* every run of _refresh's body (on a primary terminal that has its rendered
\* surface) its column count is the primary terminal's current column count.
C15_OverlayGeometry ==
    stickyScrollOverlay.defined =>
        /\ stickyScrollOverlay.rows = OverlayRows
        /\ (op = "refresh" /\ last.outcome # "noSurface")
              => stickyScrollOverlay.cols = cols

\* C16: once the overlay terminal and the serializer are loaded, a refresh
\* whose top row is covered by a command with a valid marker and a non-empty
\* first line writes that line to the overlay terminal and shows the element.
C16_DrawnOnceLoaded ==
    (SerializedByRefresh /\ FirstLine(last.s) # <<>>) =>
        /\ last.writes = <<Reset, FirstLine(last.s)>>
        /\ stickyScrollOverlay.text = FirstLine(last.s)
        /\ element.visible

\* C17: the overlay terminal is written (or reset) only by a refresh, and at
\* the end of a refresh that wrote to it a sticky marker is recorded whose
\* line is not -1.
C17_WritesNeedValidMarker ==
    [][(stickyScrollOverlay'.text # stickyScrollOverlay.text \/ last'.writes # <<>>)
         => /\ op' = "refresh"
            /\ currentStickyMarker' # Undefined
            /\ currentStickyMarker'[1] # InvalidLine]_vars

\* C17 witness: a refresh reset the overlay terminal and wrote content to it
\* with a marker recorded.
C17_Witness ==
    /\ op = "refresh" /\ Len(last.writes) = 2
    /\ stickyScrollOverlay.text = last.writes[2]
    /\ currentStickyMarker # Undefined

\* C18, as claimed: the serializer is present only when the overlay terminal
\* has been constructed; the canvas addon is present only when the overlay
\* terminal exists and the primary was hardware-accelerated when xtermReady
\* ran.
C18_AddonsAsAttached ==
    /\ serializeAddon => stickyScrollOverlay.defined
    /\ stickyScrollOverlay.canvas => (stickyScrollOverlay.defined /\ gpuSeen.attach)

\* C18, amended: the serializer is present only when the overlay terminal has
\* been constructed; the canvas addon is loaded, or being loaded, only when
\* the overlay terminal exists and the primary was hardware-accelerated at
\* the moment the overlay terminal was constructed.
C18_AddonsAsConstructed ==
    /\ serializeAddon => stickyScrollOverlay.defined
    /\ promises.serialize # "none" => stickyScrollOverlay.defined
    /\ stickyScrollOverlay.canvas => (stickyScrollOverlay.defined /\ gpuSeen.ctor)
    /\ promises.canvas # "none" => (stickyScrollOverlay.defined /\ gpuSeen.ctor)

\* C18 witness: both addons are loaded, and the primary became
\* hardware-accelerated between xtermReady and the overlay's construction.
C18_Witness ==
    /\ serializeAddon /\ stickyScrollOverlay.canvas
    /\ ~gpuSeen.attach /\ gpuSeen.ctor

====
